---- MODULE Spec2Model ----
(***************************************************************************)
(* Model of test-node-server.py, the mock BotNet node that records         *)
(* handshake results posted by the registry.                               *)
(*                                                                         *)
(* JSON values are represented by their JSON text ("null", "0.8",          *)
(* "\"s1\"", ...), so that values of different JSON types can be stored in *)
(* the same field and compared.  A parsed request body (the value          *)
(* request.get_json() returns) is a record                                 *)
(*     [kind, obj, items]                                                  *)
(* kind  : "object" | "array" | "string" | "null" | "number" | "bool"      *)
(* obj   : for an object, the function key -> value                        *)
(* items : for an array, its elements (all strings here); for a string,    *)
(*         its text cut into words, a required name being one word         *)
(***************************************************************************)
EXTENDS Naturals, Integers, Sequences, FiniteSets, TLC

VARIABLES
    handshake_results,  \* the module-level list (line 15)
    clock,              \* the wall clock datetime.now() reads
    request,            \* the request handled last by a whole-request action
    response,           \* the response to it
    pc,                 \* per worker thread: position in receive_handshake_result
    data,               \* per worker thread: local `data`
    result,             \* per worker thread: local `result`
    reply,              \* per worker thread: the response it returned last
    answered            \* submissions answered with success by worker threads

vars == <<handshake_results, clock, request, response, pc, data, result, reply, answered>>

(***************************************************************************)
(* Bounds                                                                  *)
(***************************************************************************)
MaxLog == 2         \* log length explored with the full set of bodies
MaxClock == 1       \* clock readings 0..MaxClock
MaxHistLog == 15    \* log length explored for the history view
NumWorkers == 2     \* request-handling threads running concurrently
MaxConcLog == 2     \* submissions answered or in flight with concurrent handlers

(***************************************************************************)
(* Program constants                                                       *)
(***************************************************************************)
required_fields == <<"session_id", "score", "accepted", "riddle_id">>

HistoryWindow == 10

RootWindow == 3

node_id == "test-mock-node"

DefaultEvaluator == "\"unknown\""

DefaultFeedback == "\"No feedback provided\""

(***************************************************************************)
(* Request bodies                                                          *)
(***************************************************************************)
RequiredSet == {required_fields[i] : i \in DOMAIN required_fields}

\* what the caller puts under a key: ordinary values, or null / false / 0 /
\* empty string / a value of an unexpected type
ValueOf(variant, key) ==
    CASE variant = "plain" ->
           (CASE key = "session_id"   -> "\"s1\""
              [] key = "score"        -> "0.8"
              [] key = "accepted"     -> "true"
              [] key = "riddle_id"    -> "\"r1\""
              [] key = "evaluator_id" -> "\"eval-7\""
              [] key = "feedback"     -> "\"well solved\""
              [] OTHER                -> "\"1999-01-01T00:00:00\"")
      [] variant = "odd" ->
           (CASE key = "session_id"   -> "\"\""
              [] key = "score"        -> "\"high\""
              [] key = "accepted"     -> "false"
              [] key = "riddle_id"    -> "null"
              [] key = "evaluator_id" -> "null"
              [] key = "feedback"     -> "\"\""
              [] OTHER                -> "\"T0\"")
      [] OTHER ->
           (CASE key = "session_id"   -> "null"
              [] key = "score"        -> "0"
              [] key = "accepted"     -> "\"\""
              [] key = "riddle_id"    -> "0"
              [] key = "evaluator_id" -> "false"
              [] key = "feedback"     -> "0"
              [] OTHER                -> "\"T1\"")

\* the optional keys a body carries, and the kind of values it carries
Shapes == { <<{}, "plain">>,
            <<{"evaluator_id"}, "odd">>,
            <<{"feedback", "timestamp"}, "zero">>,
            <<{"evaluator_id", "feedback", "timestamp"}, "odd">> }

JsonObject(f) == [kind |-> "object", obj |-> f, items |-> <<>>]

JsonArray(s) == [kind |-> "array", obj |-> <<>>, items |-> s]

JsonString(s) == [kind |-> "string", obj |-> <<>>, items |-> s]

JsonScalar(k) == [kind |-> k, obj |-> <<>>, items |-> <<>>]

ObjectBody(R, O, v) == JsonObject([k \in (R \cup O) |-> ValueOf(v, k)])

ObjectBodies ==
    { ObjectBody(R, sh[1], sh[2]) : <<R, sh>> \in (SUBSET RequiredSet) \X Shapes }

NameLists == { <<>>, required_fields,
               <<"score", "accepted", "riddle_id">>,
               <<"note", "session_id", "score", "accepted", "riddle_id">> }

NonObjectBodies ==
    {JsonScalar("null"), JsonScalar("number"), JsonScalar("bool")}
      \cup {JsonArray(s) : s \in NameLists}
      \cup {JsonString(s) : s \in NameLists}

Bodies == ObjectBodies \cup NonObjectBodies

(***************************************************************************)
(* Pure parts of receive_handshake_result                                  *)
(***************************************************************************)
\* Python's type name of a parsed body, as it appears in exception texts
TypeName(d) ==
    CASE d.kind = "null"   -> "NoneType"
      [] d.kind = "number" -> "int"
      [] d.kind = "bool"   -> "bool"
      [] d.kind = "array"  -> "list"
      [] d.kind = "string" -> "str"
      [] OTHER             -> "dict"

\* `field in data` is defined for a dict (key lookup), a list (element
\* equality) and a str (substring); on None, a number or a bool it raises
SupportsIn_orEmpty(d) == d.kind \in {"object", "array", "string", "null"}

SupportsIn(d) == d.kind \in {"object", "array", "string"}

Contains_truthy(field, d) ==
    IF d.kind = "object"
    THEN field \in DOMAIN d.obj
           /\ d.obj[field] \notin {"null", "false", "0", "\"\""}
    ELSE \E i \in DOMAIN d.items : d.items[i] = field

Contains(field, d) ==
    IF d.kind = "object"
    THEN field \in DOMAIN d.obj
    ELSE \E i \in DOMAIN d.items : d.items[i] = field

\* the for loop of lines 25-30, from the i-th required field on
RECURSIVE CheckFields(_, _)
CheckFields(d, i) ==
    IF i > Len(required_fields)
    THEN [outcome |-> "pass"]
    ELSE IF ~SupportsIn(d)
    THEN [outcome |-> "raise",
          error |-> "argument of type '" \o TypeName(d) \o "' is not iterable"]
    ELSE IF ~Contains(required_fields[i], d)
    THEN [outcome |-> "missing", field |-> required_fields[i]]
    ELSE CheckFields(d, i + 1)

\* reports the last absent field instead of the first
Validate_lastMissing(d) ==
    LET v == CheckFields(d, 1)
        absent == {i \in DOMAIN required_fields : ~Contains(required_fields[i], d)}
    IN  IF v.outcome = "missing"
        THEN [outcome |-> "missing",
              field |-> required_fields[CHOOSE i \in absent : \A j \in absent : j <= i]]
        ELSE v

Validate(d) == CheckFields(d, 1)

\* datetime.isoformat(): the text of an instant, as a JSON string
IsoFormat(t) == "\"T" \o ToString(t) \o "\""

\* data.get(key, default)
DictGet(d, key, default) ==
    IF key \in DOMAIN d.obj THEN d.obj[key] ELSE default

\* the keys the dict display subscripts, in evaluation order
SubscriptedKeys == <<"session_id", "score", "accepted", "riddle_id">>

\* takes the timestamp from the body when the body has one
BuildResult_callerTimestamp(d, now) ==
    IF d.kind # "object"
    THEN [outcome |-> "raise",
          error |-> TypeName(d) \o " indices must be integers"]
    ELSE [outcome |-> "built",
          result |-> [timestamp    |-> DictGet(d, "timestamp", IsoFormat(now)),
                      session_id   |-> d.obj["session_id"],
                      score        |-> d.obj["score"],
                      accepted     |-> d.obj["accepted"],
                      riddle_id    |-> d.obj["riddle_id"],
                      evaluator_id |-> DictGet(d, "evaluator_id", DefaultEvaluator),
                      feedback     |-> DictGet(d, "feedback", DefaultFeedback)]]

\* leaves riddle_id out of the entry
BuildResult_noRiddle(d, now) ==
    IF d.kind # "object"
    THEN [outcome |-> "raise",
          error |-> TypeName(d) \o " indices must be integers"]
    ELSE [outcome |-> "built",
          result |-> [timestamp    |-> IsoFormat(now),
                      session_id   |-> d.obj["session_id"],
                      score        |-> d.obj["score"],
                      accepted     |-> d.obj["accepted"],
                      evaluator_id |-> DictGet(d, "evaluator_id", DefaultEvaluator),
                      feedback     |-> DictGet(d, "feedback", DefaultFeedback)]]

\* the dict display of lines 33-41; data['session_id'] raises TypeError on a
\* list or a str, whose indices must be integers, and KeyError on a dict
\* without the key
BuildResult(d, now) ==
    LET absent == {i \in DOMAIN SubscriptedKeys : SubscriptedKeys[i] \notin DOMAIN d.obj}
    IN
    IF d.kind # "object"
    THEN [outcome |-> "raise",
          error |-> TypeName(d) \o " indices must be integers"]
    ELSE IF absent # {}
    THEN [outcome |-> "raise",
          error |-> "'" \o SubscriptedKeys[CHOOSE i \in absent : \A j \in absent : i <= j] \o "'"]
    ELSE [outcome |-> "built",
          result |-> [timestamp    |-> IsoFormat(now),
                      session_id   |-> d.obj["session_id"],
                      score        |-> d.obj["score"],
                      accepted     |-> d.obj["accepted"],
                      riddle_id    |-> d.obj["riddle_id"],
                      evaluator_id |-> DictGet(d, "evaluator_id", DefaultEvaluator),
                      feedback     |-> DictGet(d, "feedback", DefaultFeedback)]]

\* puts the new entry first
AppendResult_atFront(log, r) == <<r>> \o log

\* skips an entry that is already stored
AppendResult_dedup(log, r) ==
    IF \E i \in DOMAIN log : log[i] = r THEN log ELSE Append(log, r)

\* handshake_results.append(result), line 43
AppendResult(log, r) == Append(log, r)

\* the first n instead of the last n
LastN_firstN(seq, n) == SubSeq(seq, 1, IF Len(seq) > n THEN n ELSE Len(seq))

\* seq[-n:]
LastN(seq, n) ==
    SubSeq(seq, (IF Len(seq) > n THEN Len(seq) - n ELSE 0) + 1, Len(seq))

MissingFieldResponse(field) ==
    [code |-> 400,
     body |-> [success |-> FALSE,
               error |-> "Missing required field: " \o field]]

ErrorResponse(msg) ==
    [code |-> 500, body |-> [success |-> FALSE, error |-> msg]]

SuccessResponse(r) ==
    [code |-> 200,
     body |-> [success |-> TRUE,
               message |-> "Handshake result received successfully",
               node_id |-> node_id,
               timestamp |-> r.timestamp]]

\* the whole handler as a function of the parsed body, the clock reading and
\* the log: the response and the log it leaves
Handle(d, now, log) ==
    LET v == Validate(d) IN
    IF v.outcome = "raise"
    THEN [response |-> ErrorResponse(v.error), log |-> log]
    ELSE IF v.outcome = "missing"
    THEN [response |-> MissingFieldResponse(v.field), log |-> log]
    ELSE LET b == BuildResult(d, now) IN
         IF b.outcome = "raise"
         THEN [response |-> ErrorResponse(b.error), log |-> log]
         ELSE [response |-> SuccessResponse(b.result),
               log |-> AppendResult(log, b.result)]

(***************************************************************************)
(* Initial state                                                           *)
(***************************************************************************)
NoRequest == [method |-> "none", path |-> "", body |-> JsonScalar("null")]

NoResponse == [code |-> 0]

Workers == 1 .. NumWorkers

NoResult ==
    [timestamp |-> "", session_id |-> "", score |-> "", accepted |-> "",
     riddle_id |-> "", evaluator_id |-> "", feedback |-> ""]

Init ==
    /\ handshake_results = <<>>
    /\ clock = 0
    /\ request = NoRequest
    /\ response = NoResponse
    /\ pc = [w \in Workers |-> "idle"]
    /\ data = [w \in Workers |-> JsonScalar("null")]
    /\ result = [w \in Workers |-> NoResult]
    /\ reply = [w \in Workers |-> NoResponse]
    /\ answered = <<>>

threadVars == <<pc, data, result, reply, answered>>

(***************************************************************************)
(* Requests handled one at a time                                          *)
(***************************************************************************)
\* time passes
Tick ==
    /\ clock < MaxClock
    /\ clock' = clock + 1
    /\ UNCHANGED <<handshake_results, request, response, threadVars>>

Post(body) == [method |-> "POST", path |-> "/api/v1/handshake/result", body |-> body]

Get(path) == [method |-> "GET", path |-> path, body |-> JsonScalar("null")]

\* POST /api/v1/handshake/result, lines 17-64
SubmitWithin(body, bound) ==
    LET out == Handle(body, clock, handshake_results) IN
    /\ Len(out.log) <= bound
    /\ request' = Post(body)
    /\ response' = out.response
    /\ handshake_results' = out.log
    /\ UNCHANGED <<clock, threadVars>>

receive_handshake_result == \E body \in Bodies : SubmitWithin(body, MaxLog)

\* GET /api/v1/info, lines 66-79
node_info ==
    /\ request' = Get("/api/v1/info")
    /\ response' =
         [code |-> 200,
          body |-> [success |-> TRUE,
                    data |-> [node_id |-> node_id,
                              version |-> "1.0.0",
                              capabilities |-> <<"handshake_testing", "callback_verification">>,
                              status |-> "active",
                              handshake_results_received |-> Len(handshake_results),
                              uptime |-> clock]]]
    /\ UNCHANGED <<handshake_results, clock, threadVars>>

\* hands the results out and drops them from the log
handshake_history_draining ==
    /\ request' = Get("/api/v1/handshake/history")
    /\ response' =
         [code |-> 200,
          body |-> [success |-> TRUE,
                    data |-> [total_results |-> Len(handshake_results),
                              results |-> LastN(handshake_results, HistoryWindow)]]]
    /\ handshake_results' = <<>>
    /\ UNCHANGED <<clock, threadVars>>

\* GET /api/v1/handshake/history, lines 81-90
handshake_history ==
    /\ request' = Get("/api/v1/handshake/history")
    /\ response' =
         [code |-> 200,
          body |-> [success |-> TRUE,
                    data |-> [total_results |-> Len(handshake_results),
                              results |-> LastN(handshake_results, HistoryWindow)]]]
    /\ UNCHANGED <<handshake_results, clock, threadVars>>

\* GET /health, lines 92-99
health_check ==
    /\ request' = Get("/health")
    /\ response' =
         [code |-> 200,
          body |-> [status |-> "healthy",
                    timestamp |-> clock,
                    node_type |-> "mock_test_node"]]
    /\ UNCHANGED <<handshake_results, clock, threadVars>>

\* GET /, lines 101-123: the page shows the count and the last 3 results
root ==
    /\ request' = Get("/")
    /\ response' =
         [code |-> 200,
          body |-> [results_received |-> Len(handshake_results),
                    recent |-> LastN(handshake_results, RootWindow)]]
    /\ UNCHANGED <<handshake_results, clock, threadVars>>

Next ==
    \/ Tick
    \/ receive_handshake_result
    \/ node_info
    \/ handshake_history
    \/ health_check
    \/ root

Spec == Init /\ [][Next]_vars

(***************************************************************************)
(* Long logs: a few kinds of submission, repeated, and the history view    *)
(***************************************************************************)
HistoryBodies ==
    { ObjectBody(RequiredSet, {}, "plain"),
      ObjectBody(RequiredSet, {"evaluator_id"}, "odd"),
      ObjectBody(RequiredSet \ {"riddle_id"}, {}, "plain") }

receive_repeated == \E body \in HistoryBodies : SubmitWithin(body, MaxHistLog)

NextHistory ==
    \/ receive_repeated
    \/ handshake_history

SpecHistory == Init /\ [][NextHistory]_vars

(***************************************************************************)
(* Concurrent request handlers.  The development server handles each       *)
(* request on its own thread; the threads share handshake_results and      *)
(* nothing else.  A thread switch can happen between any two statements of *)
(* the handler; list.append itself is one indivisible step of the          *)
(* interpreter.                                                            *)
(***************************************************************************)
ConcurrentBodies ==
    { ObjectBody(RequiredSet, {}, "plain"),
      ObjectBody(RequiredSet, {"evaluator_id", "feedback", "timestamp"}, "odd"),
      ObjectBody(RequiredSet \ {"score"}, {}, "plain"),
      JsonArray(required_fields) }

InFlight == {w \in Workers : pc[w] # "idle"}

seqVars == <<request, response>>

\* line 21: data = request.get_json()
get_json(w) ==
    /\ pc[w] = "idle"
    /\ Len(answered) + Cardinality(InFlight) < MaxConcLog
    /\ \E body \in ConcurrentBodies : data' = [data EXCEPT ![w] = body]
    /\ pc' = [pc EXCEPT ![w] = "validate"]
    /\ UNCHANGED <<handshake_results, clock, result, reply, answered, seqVars>>

\* lines 24-30
validate(w) ==
    /\ pc[w] = "validate"
    /\ LET v == Validate(data[w]) IN
         IF v.outcome = "pass"
         THEN /\ pc' = [pc EXCEPT ![w] = "build"]
              /\ UNCHANGED reply
         ELSE /\ pc' = [pc EXCEPT ![w] = "idle"]
              /\ reply' = [reply EXCEPT ![w] =
                             IF v.outcome = "missing"
                             THEN MissingFieldResponse(v.field)
                             ELSE ErrorResponse(v.error)]
    /\ UNCHANGED <<handshake_results, clock, data, result, answered, seqVars>>

\* keeps `result` in one variable shared by all threads
build_sharedResult(w) ==
    /\ pc[w] = "build"
    /\ LET b == BuildResult(data[w], clock) IN
         IF b.outcome = "built"
         THEN /\ result' = [v \in Workers |-> b.result]
              /\ pc' = [pc EXCEPT ![w] = "append"]
              /\ UNCHANGED reply
         ELSE /\ reply' = [reply EXCEPT ![w] = ErrorResponse(b.error)]
              /\ pc' = [pc EXCEPT ![w] = "idle"]
              /\ UNCHANGED result
    /\ UNCHANGED <<handshake_results, clock, data, answered, seqVars>>

\* lines 33-41
build(w) ==
    /\ pc[w] = "build"
    /\ LET b == BuildResult(data[w], clock) IN
         IF b.outcome = "built"
         THEN /\ result' = [result EXCEPT ![w] = b.result]
              /\ pc' = [pc EXCEPT ![w] = "append"]
              /\ UNCHANGED reply
         ELSE /\ reply' = [reply EXCEPT ![w] = ErrorResponse(b.error)]
              /\ pc' = [pc EXCEPT ![w] = "idle"]
              /\ UNCHANGED result
    /\ UNCHANGED <<handshake_results, clock, data, answered, seqVars>>

\* line 43
append(w) ==
    /\ pc[w] = "append"
    /\ handshake_results' = AppendResult(handshake_results, result[w])
    /\ pc' = [pc EXCEPT ![w] = "return"]
    /\ UNCHANGED <<clock, data, result, reply, answered, seqVars>>

\* lines 52-57
return_success(w) ==
    /\ pc[w] = "return"
    /\ reply' = [reply EXCEPT ![w] = SuccessResponse(result[w])]
    /\ answered' = Append(answered, [body |-> data[w], response |-> reply'[w]])
    /\ pc' = [pc EXCEPT ![w] = "idle"]
    /\ UNCHANGED <<handshake_results, clock, data, result, seqVars>>

NextConcurrent ==
    \/ Tick
    \/ \E w \in Workers : get_json(w)
    \/ \E w \in Workers : validate(w)
    \/ \E w \in Workers : build(w)
    \/ \E w \in Workers : append(w)
    \/ \E w \in Workers : return_success(w)

SpecConcurrent == Init /\ [][NextConcurrent]_vars

(***************************************************************************)
(* Properties                                                              *)
(***************************************************************************)
HasAllRequired(body) == RequiredSet \subseteq DOMAIN body.obj

AbsentIndexes(body) ==
    {i \in DOMAIN required_fields : required_fields[i] \notin DOMAIN body.obj}

FirstAbsent(body) ==
    required_fields[CHOOSE i \in AbsentIndexes(body) :
                        \A j \in AbsentIndexes(body) : i <= j]

IsPrefix(s, t) == Len(s) <= Len(t) /\ SubSeq(t, 1, Len(s)) = s

IsPost == request.method = "POST"

\* a step that handles a submission: it leaves a POST as the last request;
\* the only other step that can, the passing of time, moves the clock
PostStep == request'.method = "POST" /\ clock' = clock

PostedObject == PostStep /\ request'.body.kind = "object"

EntryKeys == RequiredSet \cup {"timestamp", "evaluator_id", "feedback"}

\* C1: a submission whose JSON object lacks a required key is answered with
\* 400, success=false and "Missing required field: <name>", <name> being the
\* first absent key in the order session_id, score, accepted, riddle_id, and
\* it leaves the log as it was.
C1_MissingFieldRejected ==
    [][LET body == request'.body IN
          (PostedObject /\ ~HasAllRequired(body)) =>
             /\ response'.code = 400
             /\ response'.body.success = FALSE
             /\ response'.body.error = "Missing required field: " \o FirstAbsent(body)
             /\ handshake_results' = handshake_results]_vars

\* a rejected object that has session_id but lacks two later keys, with an
\* entry already in the log
C1_Witness ==
    /\ IsPost
    /\ request.body.kind = "object"
    /\ "session_id" \in DOMAIN request.body.obj
    /\ Cardinality(AbsentIndexes(request.body)) >= 2
    /\ response.code = 400
    /\ Len(handshake_results) >= 1

\* C2: a submission with all four required keys lengthens the log by exactly
\* one entry, placed at the end, that carries the caller's session_id,
\* score, accepted and riddle_id; evaluator_id and feedback carry the
\* caller's value when supplied and "unknown" / "No feedback provided"
\* otherwise.
C2_ValidSubmissionAppended ==
    [][LET body == request'.body IN
          (PostedObject /\ HasAllRequired(body)) =>
             LET n == Len(handshake_results)
                 e == handshake_results'[n + 1]
             IN  /\ Len(handshake_results') = n + 1
                 /\ SubSeq(handshake_results', 1, n) = handshake_results
                 /\ \A k \in RequiredSet : e[k] = body.obj[k]
                 /\ e.evaluator_id = IF "evaluator_id" \in DOMAIN body.obj
                                     THEN body.obj["evaluator_id"]
                                     ELSE "\"unknown\""
                 /\ e.feedback = IF "feedback" \in DOMAIN body.obj
                                 THEN body.obj["feedback"]
                                 ELSE "\"No feedback provided\""]_vars

\* the second entry of the log, different from the first, stored for a body
\* without the optional keys
C2_Witness ==
    /\ IsPost
    /\ response.code = 200
    /\ Len(handshake_results) = 2
    /\ handshake_results[1] # handshake_results[2]
    /\ request.body.kind = "object"
    /\ DOMAIN request.body.obj = RequiredSet
    /\ handshake_results[2].evaluator_id = "\"unknown\""
    /\ handshake_results[1].evaluator_id # "\"unknown\""

\* C3: the history view reports total_results equal to the log length and
\* returns the min(10, total_results) most recently appended entries, oldest
\* of them first.
C3_HistoryIsLastTen ==
    (request.method = "GET" /\ request.path = "/api/v1/handshake/history") =>
        LET n == Len(handshake_results)
            view == response.body.data.results
            m == IF n < 10 THEN n ELSE 10
        IN  /\ response.body.data.total_results = n
            /\ Len(view) = m
            /\ \A i \in 1 .. m : view[i] = handshake_results[n - m + i]

\* the view after 15 submissions: the 6th to the 15th, which are not all alike
C3_Witness ==
    /\ request.method = "GET"
    /\ request.path = "/api/v1/handshake/history"
    /\ Len(handshake_results) = 15
    /\ response.body.data.total_results = 15
    /\ Len(response.body.data.results) = 10
    /\ response.body.data.results[1] = handshake_results[6]
    /\ handshake_results[5] # handshake_results[6]
    /\ handshake_results[6] # handshake_results[7]

\* C4: every stored entry has session_id, score, accepted, riddle_id,
\* timestamp, evaluator_id and feedback, and the four required values are
\* those of a body that has all four required keys.
C4_StoredEntriesValidated ==
    \A i \in DOMAIN handshake_results :
        /\ DOMAIN handshake_results[i] = EntryKeys
        /\ \E body \in ObjectBodies :
              /\ HasAllRequired(body)
              /\ \A k \in RequiredSet : handshake_results[i][k] = body.obj[k]

\* a rejected submission arrived after two entries were stored
C4_Witness ==
    /\ Len(handshake_results) = 2
    /\ IsPost
    /\ response.code = 400

\* C5: a step that serves a GET endpoint leaves the log as it was, and the
\* log changes only in a step that is a submission answered with success.
C5_GetLeavesLogUnchanged ==
    [][/\ (request'.method = "GET" /\ clock' = clock)
            => handshake_results' = handshake_results
       /\ handshake_results' # handshake_results
            => /\ request'.method = "POST"
               /\ response'.code = 200
               /\ response'.body.success = TRUE]_vars

\* each of the four GET endpoints was served with entries in the log
C5_WitnessEndpoint(path) ==
    /\ request.method = "GET"
    /\ request.path = path
    /\ response.code = 200
    /\ Len(handshake_results) = 2

C5_Witness ==
    \/ C5_WitnessEndpoint("/api/v1/handshake/history")
    \/ C5_WitnessEndpoint("/api/v1/info")

\* C6: the log is empty at the start; in every step the old log is a prefix
\* of the new one, and a submission answered with success adds one entry
\* even when an equal entry is already stored.
C6_AppendOnly ==
    /\ handshake_results = <<>>
    /\ [][/\ IsPrefix(handshake_results, handshake_results')
          /\ (PostStep /\ response'.code = 200)
                   => Len(handshake_results') = Len(handshake_results) + 1]_vars

\* two equal entries sit next to each other at the end of a longer log
C6_Witness ==
    LET n == Len(handshake_results) IN
    /\ n >= 4
    /\ handshake_results[n] = handshake_results[n - 1]
    /\ handshake_results[1] # handshake_results[2]
    /\ IsPost
    /\ response.code = 200

\* C7 as stated: every body that is not a JSON object is answered with 500.
C7_NonObjectAlways500 ==
    (IsPost /\ request.body.kind # "object") => response.code = 500

HasAllNames(body) ==
    \A k \in RequiredSet : \E i \in DOMAIN body.items : body.items[i] = k

FirstAbsentName(body) ==
    LET absent == {i \in DOMAIN required_fields :
                      \A j \in DOMAIN body.items : body.items[j] # required_fields[i]}
    IN  required_fields[CHOOSE i \in absent : \A j \in absent : i <= j]

\* C7, amended: a body that is not a JSON object never adds an entry and is
\* never answered with success; null, a number, a boolean, and an array or
\* string that contains all four required names are answered with 500,
\* success=false and an error text; an array or string that lacks a required
\* name is answered with 400 naming the first absent one.
C7_NonObjectRejected ==
    [][LET body == request'.body IN
          (PostStep /\ body.kind # "object") =>
             /\ handshake_results' = handshake_results
             /\ response'.body.success = FALSE
             /\ IF body.kind \in {"array", "string"} /\ ~HasAllNames(body)
                THEN /\ response'.code = 400
                     /\ response'.body.error =
                          "Missing required field: " \o FirstAbsentName(body)
                ELSE /\ response'.code = 500
                     /\ response'.body.error # ""]_vars

\* an array with the four names was answered with 500 while the log had an
\* entry
C7_Witness ==
    /\ IsPost
    /\ request.body.kind = "array"
    /\ HasAllNames(request.body)
    /\ response.code = 500
    /\ Len(handshake_results) >= 1

\* C8: a successful submission returns success=true, node_id
\* "test-mock-node" and the server's clock reading as timestamp, whatever
\* timestamp the body carries, and the entry it appended has that timestamp.
C8_TimestampServerAssigned ==
    [][(PostStep /\ response'.code = 200) =>
             /\ response'.body.success = TRUE
             /\ response'.body.node_id = "test-mock-node"
             /\ response'.body.timestamp = "\"T" \o ToString(clock) \o "\""
             /\ Len(handshake_results') = Len(handshake_results) + 1
             /\ handshake_results'[Len(handshake_results')].timestamp
                  = response'.body.timestamp]_vars

\* a body with its own timestamp was stored under the server's
C8_Witness ==
    /\ IsPost
    /\ response.code = 200
    /\ request.body.kind = "object"
    /\ "timestamp" \in DOMAIN request.body.obj
    /\ request.body.obj["timestamp"] # response.body.timestamp
    /\ Len(handshake_results) = 2
    /\ handshake_results[2].timestamp = response.body.timestamp
    /\ handshake_results[1].timestamp # handshake_results[2].timestamp

FalsyOrMistyped == {"null", "false", "0", "\"\"", "\"high\""}

\* C9: a submission with all four required keys is answered with 200, never
\* 400, and its values are stored as given, also when a value is null, false,
\* 0, an empty string or of an unexpected type.
C9_PresenceOnly ==
    [][LET body == request'.body IN
          (PostedObject /\ HasAllRequired(body)) =>
             /\ response'.code = 200
             /\ handshake_results' # handshake_results
             /\ \A k \in RequiredSet :
                   handshake_results'[Len(handshake_results')][k] = body.obj[k]]_vars

\* accepted: score "high", accepted false, riddle_id null, session_id empty
C9_Witness ==
    /\ IsPost
    /\ response.code = 200
    /\ request.body.kind = "object"
    /\ request.body.obj["score"] = "\"high\""
    /\ request.body.obj["accepted"] = "false"
    /\ request.body.obj["riddle_id"] = "null"
    /\ handshake_results[Len(handshake_results)].score = "\"high\""
    /\ handshake_results[Len(handshake_results)].accepted = "false"

Count(seq, x) == Cardinality({i \in DOMAIN seq : seq[i] = x})

\* the entry a submission answered with success must have left in the log
EntryFor(a) ==
    [timestamp    |-> a.response.body.timestamp,
     session_id   |-> a.body.obj["session_id"],
     score        |-> a.body.obj["score"],
     accepted     |-> a.body.obj["accepted"],
     riddle_id    |-> a.body.obj["riddle_id"],
     evaluator_id |-> IF "evaluator_id" \in DOMAIN a.body.obj
                      THEN a.body.obj["evaluator_id"] ELSE "\"unknown\"",
     feedback     |-> IF "feedback" \in DOMAIN a.body.obj
                      THEN a.body.obj["feedback"] ELSE "\"No feedback provided\""]

\* C10: when no handler is in flight, the log has as many entries as there
\* were submissions answered with success, and every entry occurs in the log
\* as often as there were such submissions it belongs to.
C10_NoSubmissionLost ==
    InFlight = {} =>
        /\ Len(handshake_results) = Len(answered)
        /\ \A i \in DOMAIN answered :
              Count(handshake_results, EntryFor(answered[i]))
                = Cardinality({j \in DOMAIN answered :
                                  EntryFor(answered[j]) = EntryFor(answered[i])})
        /\ \A i \in DOMAIN handshake_results :
              \E j \in DOMAIN answered : EntryFor(answered[j]) = handshake_results[i]

\* two handlers overlapped: the one that built its entry first appended it
\* last, and both were answered
C10_Witness ==
    /\ InFlight = {}
    /\ Len(answered) = 2
    /\ handshake_results[1] # handshake_results[2]
    /\ handshake_results[1].timestamp = "\"T1\""
    /\ handshake_results[2].timestamp = "\"T0\""

====
